---- MODULE Spec2Model ----
(***************************************************************************)
(* SharedStateManager (src/shared-state-manager.go): a key-value store     *)
(* guarded by one RWMutex, with per-key time.AfterFunc expiration timers   *)
(* and per-key subscriber lists whose channels are sent to while the       *)
(* exclusive lock is held.                                                 *)
(*                                                                         *)
(* Goroutines of the model: the callers, one callback goroutine per        *)
(* timer that fired, one receiver per channel.  Channels are               *)
(* unbuffered (make(chan interface{})): a send is a rendezvous with a      *)
(* receiver that is waiting in its receive statement.                      *)
(*                                                                         *)
(* Spec is the store with handlers that do not call it, LiveSpec adds fair *)
(* scheduling, ReentrantSpec adds handlers that call Set and Delete.       *)
(***************************************************************************)
EXTENDS Naturals, Sequences, FiniteSets

\* ------------------------------------------------------------------ bounds
MaxOps == 4        \* calls made to the store in one behaviour
MaxTimers == 2     \* timers created by SetWithTimeout in one behaviour
MaxSubs == 2       \* subscriptions registered per key

Keys == {"k1", "k2"}
Chans == {"c1", "c2"}
\* The channel of a conditional subscriber and the channel of an unconditional
\* one (StartSubscription makes one channel per subscription); each may be
\* registered any number of times, for any key.
Conditional(ch) == ch = "c1"
TimerIds == 1..MaxTimers

\* interface{} values: <<dynamic type, payload>>; != compares both.  The
\* values stored are nil and a string; values of a dynamic type that has no
\* equality (a slice, a map, a func), on which line 83 panics once a
\* conditional subscriber is asked about an existing entry, are not drawn.
Nil == <<"nil", "">>
Values == {Nil, <<"string", "a">>}
\* the second result of a map read being false
Absent == <<"absent", "">>

VARIABLES
  stateMap,     \* ssm.stateMap: key -> value, or Absent
  timers,       \* ssm.timers: key -> timer id, 0 when the key has no record
  subscribers,  \* ssm.subscribers: key -> sequence of Subscription
  mu,           \* ssm.mu: who holds the exclusive lock
  cur,          \* the lock holder's operation: its kind, key and value, and
                \* (history) the entry, the value map and the armed timer
                \* it found when it took the lock
  sendq,        \* the channel sends the lock holder has still to make
  delivered,    \* history: the sends the lock holder has completed
  ret,          \* what the call that returned last returned (Get's results,
                \* with the key asked for)
  tstate,       \* each timer: unused, armed, stopped, fired, running, done
  tkey,         \* the key captured by each timer's closure
  receiver,     \* each channel's receiver: recv (waiting), handling, or
                \* calling (its handler is inside a call to the store)
  last,         \* history: per key, the last mutation that completed
  superseded,   \* history: timers replaced while they were still armed
  cancelled,    \* history: timers Delete found recorded for its key
  note,         \* history: per subscription, the last message it received
  nOps          \* number of calls made so far

vars == <<stateMap, timers, subscribers, mu, cur, sendq, delivered, ret,
          tstate, tkey, receiver, last, superseded, cancelled, note, nOps>>

\* ------------------------------------------------------------------ types
ExpirationNotification(key) == <<"ExpirationNotification", key>>

Subscription(ch, conditional) == [ch |-> ch, cond |-> conditional]

\* the holders of ssm.mu: nobody, a caller's goroutine, a timer's goroutine
Free == [who |-> "nobody", t |-> 0]
HeldByCaller == [who |-> "caller", t |-> 0]
HeldByTimer(t) == [who |-> "timer", t |-> t]
\* a drain goroutine, from inside its handler
HeldByHandler == [who |-> "handler", t |-> 0]

NoRet == [key |-> "", val |-> Nil, found |-> FALSE, valid |-> FALSE]
NoCur == [kind |-> "none", key |-> "", val |-> Nil, pre |-> Nil,
          before |-> <<>>, armed |-> 0]
\* a subscription that has received nothing yet
NoNote == <<"none", "">>

NoLast == [kind |-> "none", val |-> Nil, pre |-> Nil, dl |-> <<>>, n |-> 0]

\* ------------------------------------------------------------------ helpers
\* value, exists := ssm.stateMap[key]
MapValue(key) == IF stateMap[key] = Absent THEN Nil ELSE stateMap[key]
MapExists(key) == stateMap[key] # Absent

\* mutant: the test of exists is left out of the condition
ShouldNotify_NoExists(conditional, exists, oldValue, value) ==
  ~conditional \/ oldValue # value

\* mutant: the condition is left out, every subscriber is sent every change
ShouldNotify_Always(conditional, exists, oldValue, value) == TRUE

\* mutant: the comparison is the wrong way round, a conditional subscriber
\* is notified of a Set of the value the key already holds and of no other
ShouldNotify_WhenSame(conditional, exists, oldValue, value) ==
  ~conditional \/ ~exists \/ oldValue = value

\* the condition of notifySubscribers' if statement
ShouldNotify(conditional, exists, oldValue, value) ==
  ~conditional \/ ~exists \/ oldValue # value

\* mutant: the loop runs over the subscribers from the last to the first
notifySubscribers_Reversed(key, value, exists, oldValue) ==
  LET subs == subscribers[key]
      pass(i) == ShouldNotify(subs[i].cond, exists, oldValue, value)
      idx == SelectSeq([i \in 1..Len(subs) |-> Len(subs) + 1 - i], pass)
  IN [j \in 1..Len(idx) |->
        [idx |-> idx[j], ch |-> subs[idx[j]].ch, msg |-> value]]

\* the sends notifySubscribers makes, in the order of the range loop
notifySubscribers(key, value, exists, oldValue) ==
  LET subs == subscribers[key]
      pass(i) == ShouldNotify(subs[i].cond, exists, oldValue, value)
      idx == SelectSeq([i \in 1..Len(subs) |-> i], pass)
  IN [j \in 1..Len(idx) |->
        [idx |-> idx[j], ch |-> subs[idx[j]].ch, msg |-> value]]

\* mutant: the expiration loop skips the conditional subscribers
notifyExpiration_SkipsConditional(key) ==
  LET subs == subscribers[key]
      idx == SelectSeq([i \in 1..Len(subs) |-> i], LAMBDA i : ~subs[i].cond)
  IN [j \in 1..Len(idx) |->
        [idx |-> idx[j], ch |-> subs[idx[j]].ch,
         msg |-> ExpirationNotification(key)]]

\* mutant: the expiration loop runs only when the key had an entry
notifyExpiration_IfPresent(key) ==
  LET subs == subscribers[key]
  IN IF stateMap[key] = Absent THEN <<>>
     ELSE [i \in 1..Len(subs) |->
             [idx |-> i, ch |-> subs[i].ch,
              msg |-> ExpirationNotification(key)]]

\* mutant: the expiration loop runs over the subscribers of every key
notifyExpiration_AllKeys(key) ==
  LET subs == subscribers["k1"] \o subscribers["k2"]
  IN [i \in 1..Len(subs) |->
        [idx |-> i, ch |-> subs[i].ch, msg |-> ExpirationNotification(key)]]

\* the sends of the loop that ends expireKey and Delete
notifyExpiration(key) ==
  LET subs == subscribers[key]
  IN [i \in 1..Len(subs) |->
        [idx |-> i, ch |-> subs[i].ch, msg |-> ExpirationNotification(key)]]

\* timer.Stop(): prevents the firing of a timer that has not fired; a timer
\* whose function was already started in its goroutine is not affected.
Stop(ts, t) == IF ts[t] = "armed" THEN [ts EXCEPT ![t] = "stopped"] ELSE ts

\* if timer, exists := ssm.timers[key]; exists { timer.Stop() }
StopRecorded(ts, key) == IF timers[key] # 0 THEN Stop(ts, timers[key]) ELSE ts

\* the timer time.AfterFunc creates next
NewTimer == CHOOSE t \in TimerIds : tstate[t] = "unused" /\
               \A u \in TimerIds : tstate[u] = "unused" => t <= u

\* the timer recorded for key, if its deadline has not passed
ArmedTimer(key) ==
  IF timers[key] # 0 /\ tstate[timers[key]] = "armed" THEN timers[key] ELSE 0

\* mu.Lock() returns: nobody holds the lock
Lockable == mu = Free

\* mutant: Get reads the map without the lock
RLockable_Always == TRUE

\* mu.RLock() returns: no writer holds the lock
RLockable == mu = Free

\* mutant: the entry is not removed
DeleteEntry_Keeps(key) == stateMap

\* delete(ssm.stateMap, key), lines 93 and 139
DeleteEntry(key) == [stateMap EXCEPT ![key] = Absent]

\* mutant: SetWithTimeout notifies as Set does, with the old entry
SetWithTimeoutNotify_AsSet(key, value) ==
  notifySubscribers(key, value, MapExists(key), MapValue(key))

\* SetWithTimeout's call of notifySubscribers, line 67
SetWithTimeoutNotify(key, value) == notifySubscribers(key, value, FALSE, Nil)

\* ------------------------------------------------------------------ Init
\* NewSharedStateManager, and the goroutines around it at rest.
Init ==
  /\ stateMap = [k \in Keys |-> Absent]
  /\ timers = [k \in Keys |-> 0]
  /\ subscribers = [k \in Keys |-> <<>>]
  /\ mu = Free
  /\ cur = NoCur
  /\ sendq = <<>>
  /\ delivered = <<>>
  /\ ret = NoRet
  /\ tstate = [t \in TimerIds |-> "unused"]
  /\ tkey = [t \in TimerIds |-> ""]
  /\ receiver = [ch \in Chans |-> "recv"]
  /\ last = [k \in Keys |-> NoLast]
  /\ superseded = {}
  /\ cancelled = {}
  /\ note = [k \in Keys |-> <<>>]
  /\ nOps = 0

\* ------------------------------------------------------------------ callers
\* Any number of goroutines call the store.  A caller blocked in mu.Lock or
\* mu.RLock has done nothing yet, so a call is modelled from the step at which
\* it gets the lock, and the caller that holds the lock is "the caller".

\* mutant: Set stops and forgets the key's timer, as Delete does
SetLock_StopsTimer(key, value) ==
  /\ Lockable
  /\ nOps < MaxOps
  /\ mu' = HeldByCaller
  /\ stateMap' = [stateMap EXCEPT ![key] = value]
  /\ tstate' = StopRecorded(tstate, key)
  /\ timers' = [timers EXCEPT ![key] = 0]
  /\ sendq' = notifySubscribers(key, value, MapExists(key), MapValue(key))
  /\ cur' = [kind |-> "set", key |-> key, val |-> value,
             pre |-> stateMap[key], before |-> stateMap, armed |-> 0]
  /\ delivered' = <<>>
  /\ ret' = NoRet
  /\ nOps' = nOps + 1
  /\ UNCHANGED <<subscribers, tkey, receiver, last, superseded, cancelled,
                 note>>

\* Set, lines 55-59: Lock, read the old value, overwrite, start notifying.
SetLock(key, value) ==
  LET oldValue == MapValue(key)
      exists == MapExists(key)
  IN /\ Lockable
     /\ nOps < MaxOps
     /\ mu' = HeldByCaller
     /\ stateMap' = [stateMap EXCEPT ![key] = value]
     /\ sendq' = notifySubscribers(key, value, exists, oldValue)
     /\ cur' = [kind |-> "set", key |-> key, val |-> value,
                pre |-> stateMap[key], before |-> stateMap, armed |-> 0]
     /\ delivered' = <<>>
     /\ ret' = NoRet
     /\ nOps' = nOps + 1
     /\ UNCHANGED <<timers, subscribers, tstate, tkey, receiver, last,
                    superseded, cancelled, note>>

\* SetWithTimeout, lines 64-67: Lock, overwrite, notify with exists = false.
SetWithTimeoutLock(key, value) ==
  /\ Lockable
  /\ nOps < MaxOps
  /\ \E t \in TimerIds : tstate[t] = "unused"
  /\ mu' = HeldByCaller
  /\ stateMap' = [stateMap EXCEPT ![key] = value]
  /\ sendq' = SetWithTimeoutNotify(key, value)
  /\ cur' = [kind |-> "swt", key |-> key, val |-> value,
             pre |-> stateMap[key], before |-> stateMap,
             armed |-> ArmedTimer(key)]
  /\ delivered' = <<>>
  /\ ret' = NoRet
  /\ nOps' = nOps + 1
  /\ UNCHANGED <<timers, subscribers, tstate, tkey, receiver, last,
                 superseded, cancelled, note>>

\* mutant: Delete stops the key's timer but leaves its record in the map
DeleteLock_KeepsRecord(key) ==
  /\ Lockable
  /\ nOps < MaxOps
  /\ mu' = HeldByCaller
  /\ stateMap' = DeleteEntry(key)
  /\ tstate' = StopRecorded(tstate, key)
  /\ sendq' = notifyExpiration(key)
  /\ cur' = [kind |-> "delete", key |-> key, val |-> Nil,
             pre |-> stateMap[key], before |-> stateMap, armed |-> 0]
  /\ cancelled' = cancelled \cup ({timers[key]} \ {0})
  /\ delivered' = <<>>
  /\ ret' = NoRet
  /\ nOps' = nOps + 1
  /\ UNCHANGED <<timers, subscribers, tkey, receiver, last, superseded, note>>

\* Delete, lines 137-145: Lock, remove the entry, stop and remove the timer,
\* start sending the expiration notification.
DeleteLock(key) ==
  /\ Lockable
  /\ nOps < MaxOps
  /\ mu' = HeldByCaller
  /\ stateMap' = DeleteEntry(key)
  /\ tstate' = StopRecorded(tstate, key)
  /\ timers' = [timers EXCEPT ![key] = 0]
  /\ sendq' = notifyExpiration(key)
  /\ cur' = [kind |-> "delete", key |-> key, val |-> Nil,
             pre |-> stateMap[key], before |-> stateMap, armed |-> 0]
  /\ cancelled' = cancelled \cup ({timers[key]} \ {0})
  /\ delivered' = <<>>
  /\ ret' = NoRet
  /\ nOps' = nOps + 1
  /\ UNCHANGED <<subscribers, tkey, receiver, last, superseded, note>>

\* mutant: the channel has a buffer, a send does not wait for the receiver
Send_Buffered ==
  /\ mu # Free
  /\ sendq # <<>>
  /\ receiver' = [receiver EXCEPT
                    ![Head(sendq).ch] = IF @ = "recv" THEN "handling" ELSE @]
  /\ delivered' = Append(delivered, Head(sendq))
  /\ sendq' = Tail(sendq)
  /\ note' = [note EXCEPT ![cur.key][Head(sendq).idx] = Head(sendq).msg]
  /\ UNCHANGED <<stateMap, timers, subscribers, mu, cur, ret, tstate, tkey,
                 last, superseded, cancelled, nOps>>

\* sub.Channel <- msg, lines 84, 100, 146: the lock holder's next send, which
\* completes only with a receiver waiting on the channel.
Send ==
  /\ mu # Free
  /\ sendq # <<>>
  /\ receiver[Head(sendq).ch] = "recv"
  /\ receiver' = [receiver EXCEPT ![Head(sendq).ch] = "handling"]
  /\ delivered' = Append(delivered, Head(sendq))
  /\ sendq' = Tail(sendq)
  /\ note' = [note EXCEPT ![cur.key][Head(sendq).idx] = Head(sendq).msg]
  /\ UNCHANGED <<stateMap, timers, subscribers, mu, cur, ret, tstate, tkey,
                 last, superseded, cancelled, nOps>>

\* mutant: the drain goroutine handles one message and exits (an if where
\* the for loop should be)
HandlerDone_Exits(ch) ==
  /\ receiver[ch] = "handling"
  /\ receiver' = [receiver EXCEPT ![ch] = "gone"]
  /\ UNCHANGED <<stateMap, timers, subscribers, mu, cur, sendq, delivered,
                 ret, tstate, tkey, last, superseded, cancelled, nOps, note>>

\* StartSubscription, lines 165-167: the handler returns and the drain
\* goroutine is back in its receive.
HandlerDone(ch) ==
  /\ receiver[ch] = "handling"
  /\ receiver' = [receiver EXCEPT ![ch] = "recv"]
  /\ UNCHANGED <<stateMap, timers, subscribers, mu, cur, sendq, delivered,
                 ret, tstate, tkey, last, superseded, cancelled, nOps, note>>

\* history: the record of the lock holder's operation as it completes
Completed == [kind |-> cur.kind, val |-> cur.val, pre |-> cur.pre,
              dl |-> delivered, n |-> Len(subscribers[cur.key])]

\* mutant: the lock is released without waiting for the end of the loop
Return_Early ==
  /\ mu = HeldByCaller
  /\ cur.kind \in {"set", "delete"}
  /\ mu' = Free
  /\ last' = [last EXCEPT ![cur.key] = Completed]
  /\ cur' = NoCur
  /\ delivered' = <<>>
  /\ UNCHANGED <<stateMap, timers, subscribers, sendq, ret, tstate, tkey,
                 receiver, superseded, cancelled, nOps, note>>

\* Set line 60 and Delete line 148: the loop is over, the deferred Unlock.
Return ==
  /\ mu = HeldByCaller
  /\ cur.kind \in {"set", "delete"}
  /\ sendq = <<>>
  /\ mu' = Free
  /\ last' = [last EXCEPT ![cur.key] = Completed]
  /\ cur' = NoCur
  /\ delivered' = <<>>
  /\ UNCHANGED <<stateMap, timers, subscribers, sendq, ret, tstate, tkey,
                 receiver, superseded, cancelled, nOps, note>>

\* mutant: the recorded timer is not stopped before it is replaced
SetWithTimeoutReturn_NoStop ==
  LET key == cur.key
      timer == NewTimer
  IN /\ mu = HeldByCaller
     /\ cur.kind = "swt"
     /\ sendq = <<>>
     /\ tstate' = [tstate EXCEPT ![timer] = "armed"]
     /\ tkey' = [tkey EXCEPT ![timer] = key]
     /\ timers' = [timers EXCEPT ![key] = timer]
     /\ superseded' = superseded \cup ({cur.armed} \ {0})
     /\ mu' = Free
     /\ last' = [last EXCEPT ![key] = Completed]
     /\ cur' = NoCur
     /\ delivered' = <<>>
     /\ UNCHANGED <<stateMap, subscribers, sendq, ret, receiver, cancelled,
                    nOps, note>>

\* SetWithTimeout, lines 69-78: stop the recorded timer, arm a new one,
\* record it, Unlock.
SetWithTimeoutReturn ==
  LET key == cur.key
      timer == NewTimer
  IN /\ mu = HeldByCaller
     /\ cur.kind = "swt"
     /\ sendq = <<>>
     /\ tstate' = [StopRecorded(tstate, key) EXCEPT ![timer] = "armed"]
     /\ tkey' = [tkey EXCEPT ![timer] = key]
     /\ timers' = [timers EXCEPT ![key] = timer]
     /\ superseded' = superseded \cup ({cur.armed} \ {0})
     /\ mu' = Free
     /\ last' = [last EXCEPT ![key] = Completed]
     /\ cur' = NoCur
     /\ delivered' = <<>>
     /\ UNCHANGED <<stateMap, subscribers, sendq, ret, receiver, cancelled,
                    nOps, note>>

\* mutant: a stored nil is reported as not found
GetResult_NilNotFound(key) ==
  [key |-> key, val |-> MapValue(key),
   found |-> MapExists(key) /\ MapValue(key) # Nil, valid |-> TRUE]

\* what Get returns, lines 108-109
GetResult(key) ==
  [key |-> key, val |-> MapValue(key), found |-> MapExists(key),
   valid |-> TRUE]

\* Get, lines 105-110.
Get(key) ==
  /\ RLockable
  /\ nOps < MaxOps
  /\ ret' = GetResult(key)
  /\ nOps' = nOps + 1
  /\ UNCHANGED <<stateMap, timers, subscribers, mu, cur, sendq, delivered,
                 tstate, tkey, receiver, last, superseded, cancelled, note>>

\* mutant: a channel already registered for the key is not appended again
Subscribe_Dedup(key, ch, conditional) ==
  /\ Lockable
  /\ nOps < MaxOps
  /\ Len(subscribers[key]) < MaxSubs
  /\ subscribers' =
       IF \E i \in 1..Len(subscribers[key]) : subscribers[key][i].ch = ch
       THEN subscribers
       ELSE [subscribers EXCEPT
               ![key] = Append(@, Subscription(ch, conditional))]
  /\ note' = [k \in Keys |->
               IF Len(subscribers'[k]) > Len(note[k])
               THEN Append(note[k], NoNote) ELSE note[k]]
  /\ ret' = NoRet
  /\ nOps' = nOps + 1
  /\ UNCHANGED <<stateMap, timers, mu, cur, sendq, delivered, tstate, tkey,
                 receiver, last, superseded, cancelled>>

\* Subscribe, lines 151-158: Lock, append, Unlock.
Subscribe(key, ch, conditional) ==
  /\ Lockable
  /\ nOps < MaxOps
  /\ Len(subscribers[key]) < MaxSubs
  /\ subscribers' = [subscribers EXCEPT
                       ![key] = Append(@, Subscription(ch, conditional))]
  /\ note' = [note EXCEPT ![key] = Append(@, NoNote)]
  /\ ret' = NoRet
  /\ nOps' = nOps + 1
  /\ UNCHANGED <<stateMap, timers, mu, cur, sendq, delivered, tstate, tkey,
                 receiver, last, superseded, cancelled>>

\* ------------------------------------------------------------------ timers
\* The runtime finds the deadline of an armed timer passed and starts the
\* function given to time.AfterFunc (line 74) in its own goroutine.
TimerFire(t) ==
  /\ tstate[t] = "armed"
  /\ tstate' = [tstate EXCEPT ![t] = "fired"]
  /\ UNCHANGED <<stateMap, timers, subscribers, mu, cur, sendq, delivered,
                 ret, tkey, receiver, last, superseded, cancelled, nOps,
                 note>>

\* expireKey, lines 91-100: Lock, remove the entry, stop and remove whatever
\* timer is recorded for the key, start sending the expiration notification.
ExpireLock(t) ==
  LET key == tkey[t]
  IN /\ tstate[t] = "fired"
     /\ Lockable
     /\ mu' = HeldByTimer(t)
     /\ stateMap' = DeleteEntry(key)
     /\ tstate' = [StopRecorded(tstate, key) EXCEPT ![t] = "running"]
     /\ timers' = [timers EXCEPT ![key] = 0]
     /\ sendq' = notifyExpiration(key)
     /\ cur' = [kind |-> "expire", key |-> key, val |-> Nil,
                pre |-> stateMap[key], before |-> stateMap, armed |-> 0]
     /\ delivered' = <<>>
     /\ UNCHANGED <<subscribers, ret, tkey, receiver, last, superseded,
                 cancelled, nOps, note>>

\* expireKey, line 102: the deferred Unlock.
ExpireReturn(t) ==
  /\ tstate[t] = "running"
  /\ mu = HeldByTimer(t)
  /\ sendq = <<>>
  /\ tstate' = [tstate EXCEPT ![t] = "done"]
  /\ mu' = Free
  /\ last' = [last EXCEPT ![cur.key] = Completed]
  /\ cur' = NoCur
  /\ delivered' = <<>>
  /\ UNCHANGED <<stateMap, timers, subscribers, sendq, ret, tkey, receiver,
                 superseded, cancelled, nOps, note>>

\* ------------------------------------------------------------------ Spec
Next ==
  \/ \E key \in Keys, value \in Values : SetLock(key, value)
  \/ \E key \in Keys, value \in Values :
       SetWithTimeoutLock(key, value)
  \/ \E key \in Keys : DeleteLock(key)
  \/ Return
  \/ SetWithTimeoutReturn
  \/ \E key \in Keys : Get(key)
  \/ \E key \in Keys, ch \in Chans : Subscribe(key, ch, Conditional(ch))
  \/ Send
  \/ \E ch \in Chans : HandlerDone(ch)
  \/ \E t \in TimerIds : TimerFire(t)
  \/ \E t \in TimerIds : ExpireLock(t)
  \/ \E t \in TimerIds : ExpireReturn(t)

Spec == Init /\ [][Next]_vars

\* Fair scheduling: a goroutine that can take its next step does so.  The
\* lock holder makes its sends and returns, a handler returns, and a timer's
\* goroutine waiting in mu.Lock gets the lock once it stays free (sync.Mutex
\* does not starve a waiter).  Nothing obliges a caller to call or a deadline
\* to pass.
Fairness ==
  /\ WF_vars(Send)
  /\ WF_vars(Return)
  /\ WF_vars(SetWithTimeoutReturn)
  /\ \A ch \in Chans : WF_vars(HandlerDone(ch))
  /\ \A t \in TimerIds : WF_vars(ExpireLock(t))
  /\ \A t \in TimerIds : WF_vars(ExpireReturn(t))

LiveSpec == Spec /\ Fairness

\* ------------------------------------------------------------------ handlers
\* A handler given to StartSubscription runs in the channel's drain goroutine
\* (line 166) and may itself call the store; until the call returns the
\* goroutine is not back in its receive.

\* the handler of ch calls Set, lines 55-59
HandlerSetLock(ch, key, value) ==
  LET oldValue == MapValue(key)
      exists == MapExists(key)
  IN /\ receiver[ch] = "handling"
     /\ Lockable
     /\ nOps < MaxOps
     /\ mu' = HeldByHandler
     /\ receiver' = [receiver EXCEPT ![ch] = "calling"]
     /\ stateMap' = [stateMap EXCEPT ![key] = value]
     /\ sendq' = notifySubscribers(key, value, exists, oldValue)
     /\ cur' = [kind |-> "set", key |-> key, val |-> value,
                pre |-> stateMap[key], before |-> stateMap, armed |-> 0]
     /\ delivered' = <<>>
     /\ ret' = NoRet
     /\ nOps' = nOps + 1
     /\ UNCHANGED <<timers, subscribers, tstate, tkey, last, superseded,
                    cancelled, note>>

\* the handler of ch calls Delete, lines 137-145
HandlerDeleteLock(ch, key) ==
  /\ receiver[ch] = "handling"
  /\ Lockable
  /\ nOps < MaxOps
  /\ mu' = HeldByHandler
  /\ receiver' = [receiver EXCEPT ![ch] = "calling"]
  /\ stateMap' = DeleteEntry(key)
  /\ tstate' = StopRecorded(tstate, key)
  /\ timers' = [timers EXCEPT ![key] = 0]
  /\ sendq' = notifyExpiration(key)
  /\ cur' = [kind |-> "delete", key |-> key, val |-> Nil,
             pre |-> stateMap[key], before |-> stateMap, armed |-> 0]
  /\ cancelled' = cancelled \cup ({timers[key]} \ {0})
  /\ delivered' = <<>>
  /\ ret' = NoRet
  /\ nOps' = nOps + 1
  /\ UNCHANGED <<subscribers, tkey, last, superseded, note>>

\* Set line 60 and Delete line 148 in a handler: the loop is over, the
\* deferred Unlock, and the handler goes on.
HandlerReturn(ch) ==
  /\ mu = HeldByHandler
  /\ receiver[ch] = "calling"
  /\ sendq = <<>>
  /\ mu' = Free
  /\ receiver' = [receiver EXCEPT ![ch] = "handling"]
  /\ last' = [last EXCEPT ![cur.key] = Completed]
  /\ cur' = NoCur
  /\ delivered' = <<>>
  /\ UNCHANGED <<stateMap, timers, subscribers, sendq, ret, tstate, tkey,
                 superseded, cancelled, nOps, note>>

\* the store with handlers that call Set and Delete
NextReentrant ==
  \/ Next
  \/ \E ch \in Chans, key \in Keys, value \in Values :
       HandlerSetLock(ch, key, value)
  \/ \E ch \in Chans, key \in Keys : HandlerDeleteLock(ch, key)
  \/ \E ch \in Chans : HandlerReturn(ch)

ReentrantSpec == Init /\ [][NextReentrant]_vars

\* ------------------------------------------------------------------ claims
\* the number of sends in seq made for the subscription at index i
Count(seq, i) == Cardinality({j \in 1..Len(seq) : seq[j].idx = i})

\* the lock holder has made every send of its loop and is about to unlock
LoopOver == mu # Free /\ sendq = <<>>

\* the subscription at index i of the lock holder's key
SubOf(i) == subscribers[cur.key][i]
SubIndices == 1..Len(subscribers[cur.key])

\* every send the lock holder completed went to the channel of the
\* subscription it was made for and carried msg
AllCarry(msg) ==
  \A j \in 1..Len(delivered) :
     /\ delivered[j].msg = msg
     /\ delivered[j].ch = SubOf(delivered[j].idx).ch

\* C1: a timer that was still armed when a second SetWithTimeout on its key
\* took the lock, and that this call replaced, never takes effect: its
\* callback never gets to remove the entry or to send an expiration
\* notification.
C1_SupersededNeverFires ==
  \A t \in superseded : tstate[t] \notin {"running", "done"}

\* C2: when Set(k, v) has finished notifying, a subscriber of k has been sent
\* v (once) if and only if it is unconditional, or k had no entry when Set
\* took the lock, or the entry it had then differs from v; otherwise it has
\* been sent nothing.
C2_ConditionalRule ==
  (LoopOver /\ cur.kind = "set") =>
     /\ AllCarry(cur.val)
     /\ \A i \in SubIndices :
          IF ~SubOf(i).cond \/ cur.pre = Absent \/ cur.pre # cur.val
          THEN Count(delivered, i) = 1
          ELSE Count(delivered, i) = 0

\* C2's case: a Set of the value the key already holds has skipped a
\* conditional subscriber and notified an unconditional one.
C2_Witness ==
  /\ LoopOver /\ cur.kind = "set" /\ cur.pre = cur.val
  /\ \E i \in SubIndices : SubOf(i).cond /\ Count(delivered, i) = 0
  /\ \E i \in SubIndices : ~SubOf(i).cond /\ Count(delivered, i) = 1

\* the lock holder is the second of two Sets of the same value to its key
\* that completed with no other mutation of the key between them
SecondSameSet ==
  /\ LoopOver /\ cur.kind = "set"
  /\ last[cur.key].kind = "set" /\ last[cur.key].val = cur.val

\* the sends the two Sets made for the subscription at index i
BothSets(i) == Count(last[cur.key].dl, i) + Count(delivered, i)

\* C3 as stated: over two Sets in a row of the same value, a conditional
\* subscriber is sent exactly one notification and an unconditional one two.
C3_TwiceSameValue ==
  SecondSameSet =>
     \A i \in 1..last[cur.key].n :
        BothSets(i) = IF SubOf(i).cond THEN 1 ELSE 2

\* C3 amended: the second Set sends a conditional subscriber nothing, and the
\* first sends it one notification exactly when the key had no entry or an
\* entry of another value before it (none when the key already held the
\* value); an unconditional subscriber is sent one notification by each.
C3_TwiceSameValueAmended ==
  SecondSameSet =>
     \A i \in 1..last[cur.key].n :
        IF SubOf(i).cond
        THEN /\ Count(delivered, i) = 0
             /\ Count(last[cur.key].dl, i) =
                  IF last[cur.key].pre = Absent \/ last[cur.key].pre # cur.val
                  THEN 1 ELSE 0
        ELSE /\ Count(delivered, i) = 1
             /\ Count(last[cur.key].dl, i) = 1

\* C3's case: two Sets in a row of one value, the first a change, with a
\* conditional subscriber sent one notification and an unconditional one two.
C3_Witness ==
  /\ SecondSameSet
  /\ last[cur.key].pre # cur.val
  /\ \E i \in 1..last[cur.key].n : SubOf(i).cond /\ BothSets(i) = 1
  /\ \E i \in 1..last[cur.key].n : ~SubOf(i).cond /\ BothSets(i) = 2

\* C4: when a timer's callback has finished notifying, Get of its key reports
\* not-found and every subscriber of the key, conditional or not, has been
\* sent exactly one expiration notification carrying the key.
C4_Expiration ==
  (LoopOver /\ cur.kind = "expire") =>
     /\ ~GetResult(cur.key).found
     /\ AllCarry(ExpirationNotification(cur.key))
     /\ \A i \in SubIndices : Count(delivered, i) = 1

\* C4's case: the timer armed by the SetWithTimeout that last touched the key
\* has removed the value this call stored and notified a conditional and an
\* unconditional subscriber.
C4_Witness ==
  /\ LoopOver /\ cur.kind = "expire"
  /\ mu.t \notin superseded
  /\ last[cur.key].kind = "swt" /\ cur.pre = last[cur.key].val
  /\ \E i \in SubIndices : SubOf(i).cond /\ Count(delivered, i) = 1
  /\ \E i \in SubIndices : ~SubOf(i).cond /\ Count(delivered, i) = 1

\* the lock holder's next send is to a channel whose receiver is not waiting
BlockedInSend ==
  mu # Free /\ sendq # <<>> /\ receiver[Head(sendq).ch] # "recv"

\* a step of the store itself: a call that gets the lock and acts, a timer
\* callback that gets the lock, a send, a return
StoreStep ==
  \/ \E key \in Keys, value \in Values : SetLock(key, value)
  \/ \E key \in Keys, value \in Values : SetWithTimeoutLock(key, value)
  \/ \E key \in Keys : DeleteLock(key)
  \/ \E key \in Keys : Get(key)
  \/ \E key \in Keys, ch \in Chans : Subscribe(key, ch, Conditional(ch))
  \/ \E t \in TimerIds : ExpireLock(t)
  \/ Send
  \/ Return
  \/ SetWithTimeoutReturn
  \/ \E t \in TimerIds : ExpireReturn(t)

\* C5: while the lock holder is blocked in a send to a channel with no
\* receiver waiting, it holds the lock and no operation of the store, on any
\* key, can take a step: no Set, SetWithTimeout, Delete, Get or Subscribe, no
\* timer callback, and no return of the holder.
C5_BlockedSendStallsStore ==
  BlockedInSend => ~ENABLED StoreStep

\* C5's case: a Set is blocked in its send while further calls are waiting to
\* be made and a timer's callback waits for the lock.
C5_Witness ==
  /\ BlockedInSend /\ cur.kind = "set"
  /\ nOps < MaxOps
  /\ \E t \in TimerIds : tstate[t] = "fired"

\* a timer's deadline passes: the one change of timer state that is not
\* made by an operation of the store
DeadlinePasses ==
  \E t \in TimerIds :
     tstate[t] = "armed" /\ tstate' = [tstate EXCEPT ![t] = "fired"]

\* C6: no step of a plain Set (taking the lock, sending, returning) changes
\* the timer map or stops a timer: a timer armed for the key stays armed
\* until its deadline passes; and the callback of a timer, on taking the
\* lock, removes the entry of its key whatever value a Set has put there and
\* starts sending the expiration notification to every subscriber of the key.
C6_SetKeepsTimer ==
  [][/\ (cur.kind = "set" \/ cur'.kind = "set") =>
          /\ timers' = timers
          /\ tkey' = tkey
          /\ tstate' = tstate \/ DeadlinePasses
     /\ (mu = Free /\ mu'.who = "timer") =>
          /\ stateMap' = [stateMap EXCEPT ![tkey[mu'.t]] = Absent]
          /\ Len(sendq') = Len(subscribers[tkey[mu'.t]])
          /\ \A i \in 1..Len(sendq') :
               sendq'[i].msg = ExpirationNotification(tkey[mu'.t])]_vars

\* C6's case: a timer has removed a value that a plain Set stored after the
\* timer was armed for another value, and has notified a subscriber.
C6_Witness ==
  /\ LoopOver /\ cur.kind = "expire"
  /\ last[cur.key].kind = "set"
  /\ cur.pre = last[cur.key].val /\ last[cur.key].pre \notin {Absent, cur.pre}
  /\ delivered # <<>>

\* C7: when Delete of a key that had an entry has finished notifying, the
\* entry is gone and every subscriber of the key, conditional or not, has
\* been sent exactly one expiration notification carrying the key; and once
\* it has returned, Get of the key reports not-found.
C7_DeletePresent ==
  /\ (LoopOver /\ cur.kind = "delete" /\ cur.pre # Absent) =>
        /\ stateMap[cur.key] = Absent
        /\ AllCarry(ExpirationNotification(cur.key))
        /\ \A i \in SubIndices : Count(delivered, i) = 1
  /\ \A key \in Keys :
        (mu = Free /\ last[key].kind = "delete" /\ last[key].pre # Absent) =>
           ~GetResult(key).found

\* C7's case: a Delete of a present key has notified a conditional and an
\* unconditional subscriber.
C7_Witness ==
  /\ LoopOver /\ cur.kind = "delete" /\ cur.pre # Absent
  /\ \E i \in SubIndices : SubOf(i).cond /\ Count(delivered, i) = 1
  /\ \E i \in SubIndices : ~SubOf(i).cond /\ Count(delivered, i) = 1

\* C8: when Delete of a key that had no entry has finished notifying, the
\* value map is what it was when Delete took the lock, and every subscriber
\* of the key has been sent one expiration notification carrying the key.
C8_DeleteAbsent ==
  (LoopOver /\ cur.kind = "delete" /\ cur.pre = Absent) =>
     /\ stateMap = cur.before
     /\ AllCarry(ExpirationNotification(cur.key))
     /\ \A i \in SubIndices : Count(delivered, i) = 1

\* C8's case: a Delete of an absent key, with an entry under the other key,
\* has notified the key's subscribers.
C8_Witness ==
  /\ LoopOver /\ cur.kind = "delete" /\ cur.pre = Absent
  /\ \E key \in Keys : stateMap[key] # Absent
  /\ Len(delivered) = 2

\* C9: when SetWithTimeout(k, v, d) has finished notifying, every subscriber
\* of k, conditional or not, has been sent v exactly once, also when k held
\* v already.
C9_TimedSetAlwaysNotifies ==
  (LoopOver /\ cur.kind = "swt") =>
     /\ AllCarry(cur.val)
     /\ \A i \in SubIndices : Count(delivered, i) = 1

\* C9's case: a SetWithTimeout of the value the key already holds has
\* notified a conditional subscriber.
C9_Witness ==
  /\ LoopOver /\ cur.kind = "swt" /\ cur.pre = cur.val
  /\ \E i \in SubIndices : SubOf(i).cond /\ Count(delivered, i) = 1

\* C10: a Get(k) that returns while Set(k, v) is the last mutation of k to
\* have taken effect (no later Set, SetWithTimeout, Delete or expiration of k
\* has started) returns (v, true).
C10_GetAfterSet ==
  (ret.valid /\ mu = Free /\ last[ret.key].kind = "set") =>
     /\ ret.found
     /\ ret.val = last[ret.key].val

\* C10's case: Get has returned a nil that Set stored over another value.
C10_Witness ==
  /\ ret.valid /\ mu = Free /\ last[ret.key].kind = "set"
  /\ ret.val = Nil /\ ret.found
  /\ last[ret.key].pre \notin {Absent, Nil}

\* the conditional rule does not keep the lock holder's notification from the
\* subscription at index i
NotSuppressed(i) ==
  cur.kind # "set" \/ ~SubOf(i).cond \/ cur.pre = Absent \/ cur.pre # cur.val

\* the sends of the lock holder's loop, made and still to make
AllSends == delivered \o sendq

\* C11: while an operation on a key with two or more subscriptions notifies,
\* its sends, made and still to make, are in the order in which the
\* subscriptions were registered and hold one send for every subscription
\* the conditional rule does not suppress; when the loop is over each of
\* them has received it.
C11_OrderedFanOut ==
  (mu # Free /\ Len(subscribers[cur.key]) >= 2) =>
     /\ \A j, k \in 1..Len(AllSends) :
           j < k => AllSends[j].idx < AllSends[k].idx
     /\ \A i \in SubIndices : NotSuppressed(i) => Count(AllSends, i) = 1
     /\ LoopOver =>
           \A i \in SubIndices : NotSuppressed(i) => Count(delivered, i) = 1

\* C11's case: a Set has notified the two subscriptions of its key, on two
\* channels, the one registered first before the other.
C11_Witness ==
  /\ LoopOver /\ cur.kind = "set" /\ Len(delivered) = 2
  /\ delivered[1].idx = 1 /\ delivered[2].idx = 2
  /\ delivered[1].ch # delivered[2].ch

\* the timers armed for key whose deadline has not passed and that were not
\* stopped
ActiveTimers(key) == {t \in TimerIds : tstate[t] = "armed" /\ tkey[t] = key}

\* C12: a key has at most one active timer (armed, not fired, not stopped),
\* and it is the one recorded for the key in the timer map; a timer that a
\* SetWithTimeout found armed and replaced is no longer active nor recorded.
C12_OneActiveTimer ==
  /\ \A key \in Keys :
        /\ Cardinality(ActiveTimers(key)) <= 1
        /\ \A t \in ActiveTimers(key) : timers[key] = t
  /\ \A t \in superseded : tstate[t] # "armed" /\ timers[tkey[t]] # t

\* C12's case: a SetWithTimeout on a key with an armed timer has stopped it
\* and the key's one active timer is the new one.
C12_Witness ==
  \E t \in superseded :
     /\ tstate[t] = "stopped"
     /\ ActiveTimers(tkey[t]) = {timers[tkey[t]]}

\* the conditional rule did not keep the notification of the mutation
\* recorded in r from the subscription at index i of key
WasDue(r, key, i) ==
  r.kind # "set" \/ ~subscribers[key][i].cond \/ r.pre = Absent
     \/ r.pre # r.val

\* C13: a Set, SetWithTimeout or Delete has, when it returns, no send left
\* to make, and every subscription registered for its key when it took the
\* lock and not suppressed by the conditional rule has received its
\* notification, on its own channel.
C13_SynchronousDispatch ==
  /\ mu = Free => sendq = <<>>
  /\ \A key \in Keys :
        last[key].kind \in {"set", "swt", "delete"} =>
           /\ \A i \in 1..last[key].n :
                 WasDue(last[key], key, i) => Count(last[key].dl, i) = 1
           /\ \A j \in 1..Len(last[key].dl) :
                 /\ last[key].dl[j].idx \in 1..last[key].n
                 /\ last[key].dl[j].ch =
                      subscribers[key][last[key].dl[j].idx].ch

\* C13's case: a Delete has returned from a key with two subscriptions, both
\* notified.
C13_Witness ==
  \E key \in Keys :
     /\ mu = Free /\ last[key].kind = "delete"
     /\ last[key].n = 2 /\ Len(last[key].dl) = 2

\* the channels registered for key
ChannelsOf(key) == {subscribers[key][i].ch : i \in 1..Len(subscribers[key])}

\* C14: every send of the lock holder, made or still to make, is for a
\* subscription in the list of the key it operates on and goes to that
\* subscription's channel, so a channel registered only for other keys gets
\* nothing; it carries the value set, or, for Delete and expireKey, the
\* expiration notification holding that very key.
C14_OnlyOwnKey ==
  mu # Free =>
     /\ \A j \in 1..Len(AllSends) :
           /\ AllSends[j].idx \in SubIndices
           /\ AllSends[j].ch = SubOf(AllSends[j].idx).ch
           /\ AllSends[j].msg =
                IF cur.kind \in {"delete", "expire"}
                THEN ExpirationNotification(cur.key) ELSE cur.val
     /\ \A ch \in Chans \ ChannelsOf(cur.key) :
           \A j \in 1..Len(AllSends) : AllSends[j].ch # ch

\* C14's case: an expiration notification was delivered for a key while a
\* channel registered only for the other key has a receiver waiting.
C14_Witness ==
  /\ LoopOver /\ cur.kind \in {"delete", "expire"} /\ delivered # <<>>
  /\ \E key \in Keys \ {cur.key} :
        \E ch \in ChannelsOf(key) \ ChannelsOf(cur.key) :
           receiver[ch] = "recv"

\* this step is a call of Subscribe: a call that takes and releases the lock
\* in one step and returns nothing
SubscribeStep ==
  mu = Free /\ mu' = Free /\ nOps' = nOps + 1 /\ ~ret'.valid

\* when the lock holder's loop is over, each channel has received as many
\* notifications as it has registrations for the key that are not suppressed
PerRegistration ==
  LoopOver =>
     \A ch \in Chans :
        Cardinality({j \in 1..Len(delivered) : delivered[j].ch = ch}) =
        Cardinality({i \in SubIndices : SubOf(i).ch = ch /\ NotSuppressed(i)})

\* C15: a Subscribe appends one record, of the channel and flag given, to
\* the list of one key and leaves the other lists, the values and the timers
\* alone; no step of any operation removes, changes or moves a record of a
\* list; and a channel registered n times for a key receives a notification
\* that is not suppressed n times.
C15_SubscribeAppends ==
  [][/\ SubscribeStep =>
          /\ \E key \in Keys, ch \in Chans :
                /\ subscribers'[key] =
                     Append(subscribers[key],
                            Subscription(ch, Conditional(ch)))
                /\ \A other \in Keys \ {key} :
                      subscribers'[other] = subscribers[other]
          /\ UNCHANGED <<stateMap, timers, tstate, tkey>>
     /\ \A key \in Keys :
          /\ Len(subscribers'[key]) >= Len(subscribers[key])
          /\ \A i \in 1..Len(subscribers[key]) :
                subscribers'[key][i] = subscribers[key][i]
     /\ PerRegistration']_vars

\* C15's case: a channel registered twice for a key has received the same
\* notification twice.
C15_Witness ==
  /\ LoopOver /\ Len(delivered) = 2
  /\ delivered[1].ch = delivered[2].ch
  /\ delivered[1].idx # delivered[2].idx
  /\ SubOf(1) = SubOf(2)

\* C16: a timer that was recorded for a key when Delete of the key took the
\* lock never takes effect: its callback never gets to run expireKey, which
\* would send a further expiration notification to the key's subscribers
\* and remove whatever entry a later Set has stored.
C16_DeleteCancelsTimer ==
  \A t \in cancelled : tstate[t] \notin {"running", "done"}

\* C17: while nobody holds the lock, every key with a record in the timer
\* map has an entry in the value map.
C17_TimerKeysHaveEntries ==
  mu = Free => \A key \in Keys : timers[key] # 0 => stateMap[key] # Absent

\* C17's case: nobody holds the lock, a key has a timer record and an entry,
\* and Delete and a timer's callback have both removed entries and records
\* before.
C17_Witness ==
  /\ mu = Free
  /\ \E key \in Keys : timers[key] # 0 /\ stateMap[key] # Absent
  /\ cancelled # {}
  /\ \E t \in TimerIds : tstate[t] = "done"

\* C18: while nobody holds the lock, the last message a subscription of a
\* key has received, if it has received any, agrees with the value map: a
\* value is the one Get of the key returns, with true; an expiration
\* notification means Get of the key reports not-found.  Conditional and
\* unconditional subscriptions alike.
C18_LastNotificationAgrees ==
  mu = Free =>
     \A key \in Keys :
        \A i \in 1..Len(subscribers[key]) :
           note[key][i] # NoNote =>
              IF note[key][i][1] = "ExpirationNotification"
              THEN ~GetResult(key).found
              ELSE /\ GetResult(key).found
                   /\ GetResult(key).val = note[key][i]

\* C18's case: a Set of the value the key holds has returned, having sent
\* nothing to a conditional subscription whose last message is that value,
\* and the value again to an unconditional one.
C18_Witness ==
  \E key \in Keys :
     /\ mu = Free /\ last[key].kind = "set"
     /\ last[key].pre = last[key].val
     /\ \E i \in 1..Len(subscribers[key]) :
           /\ subscribers[key][i].cond
           /\ note[key][i] = last[key].val
           /\ Count(last[key].dl, i) = 0
     /\ \E i \in 1..Len(subscribers[key]) :
           ~subscribers[key][i].cond /\ Count(last[key].dl, i) = 1

\* C19: with a drain goroutine on every channel and handlers that return
\* without calling the store, under fair scheduling whoever holds the lock
\* (a Set, SetWithTimeout or Delete in its loop, a timer's callback)
\* releases it, so that every call returns, and the callback of every timer
\* that fired runs to its end.
C19_NoDeadlock ==
  /\ (mu # Free) ~> (mu = Free)
  /\ \A t \in TimerIds : (tstate[t] = "fired") ~> (tstate[t] = "done")

\* C19's case: the lock holder is blocked in a send to a channel whose
\* handler is still busy with an earlier message, while a timer's callback
\* waits for the lock.
C19_Witness ==
  /\ BlockedInSend
  /\ \E t \in TimerIds : tstate[t] = "fired"
  /\ Len(AllSends) = 2 /\ Len(delivered) = 1

\* a handler's call holds the lock and has still to send to the channel of
\* its own drain goroutine
SelfNotifying ==
  /\ mu = HeldByHandler
  /\ \E j \in 1..Len(sendq) : receiver[sendq[j].ch] = "calling"

\* C20: once a handler's Set or Delete has a notification to send to the
\* channel its own drain goroutine reads, that send is never made and the
\* lock is never released: in every step from then on the handler still
\* holds the lock with that send to make, no call starts or returns, no
\* timer callback gets the lock, and the maps do not change.
C20_SelfNotifyDeadlocks ==
  [][SelfNotifying =>
       /\ SelfNotifying'
       /\ UNCHANGED <<stateMap, timers, subscribers, mu, cur, ret, last,
                      nOps>>
       /\ \A t \in TimerIds : tstate'[t] \notin {"running", "done"} \/
                                 tstate'[t] = tstate[t]]_vars

\* C20's case: the handler of a conditional subscription has called Set with
\* a value that is not suppressed and is blocked in the send to its own
\* channel, while a timer's callback waits for the lock and further calls
\* are to be made.
C20_Witness ==
  /\ mu = HeldByHandler /\ cur.kind = "set"
  /\ sendq # <<>> /\ receiver[Head(sendq).ch] = "calling"
  /\ Conditional(Head(sendq).ch)
  /\ \E t \in TimerIds : tstate[t] = "fired"
  /\ nOps < MaxOps

====
